---- MODULE Spec2Model ----
(***************************************************************************)
(* Model of src/biqueue/iomsg.rs: the typestate wrapper around recvmsg and *)
(* sendmsg that passes file descriptors in SCM_RIGHTS control messages.    *)
(*                                                                         *)
(* The control buffer is modelled byte by byte (little-endian, the layout  *)
(* of cmsghdr on 64-bit Linux).  Pointers into the control buffer are byte *)
(* offsets from its start; Null is the null pointer.                       *)
(***************************************************************************)
EXTENDS Integers, Sequences, FiniteSets, Bags, TLC

\* ------------------------------------------------------------------ bounds
\* Largest control buffer, in bytes.
MaxBuf == 48
\* Number of distinct descriptor values a caller passes to encode_fds.
NumIds == 2
\* Longest descriptor sequence passed to encode_fds (short inputs).
MaxFds == 3
\* Most control messages in one received chain.
MaxRecs == 2
\* Most descriptors in one received SCM_RIGHTS message.
MaxRecFds == 2
\* Most calls of take_fds on one MsgHdrRecvEnd.
MaxTakes == 2
\* Largest byte count recvmsg/sendmsg report.
MaxBytes == 1
\* Value of the lowest descriptor (chosen so that values cross a byte).
FirstFd == 255

\* ------------------------------------------------- platform (libc) constants
SizeofCmsghdr == 16
SizeofRawFd == 4
SizeofUsize == 8
SOL_SOCKET == 1
SCM_RIGHTS == 1
SCM_CREDENTIALS == 2
\* A level that is not SOL_SOCKET (IPPROTO_IP).
OtherLevel == SOL_SOCKET - 1
MSG_CTRUNC == 8
Null == 0 - 1

\* Option<T>: None is the empty sequence, Some(x) the one-element sequence.
None == << >>
Some(x) == << x >>
IsSome(o) == o # << >>
Unwrap(o) == o[1]

\* ------------------------------------------------------------ byte memory
\* Byte k (0 = least significant) of the value v.
RECURSIVE ByteOf(_, _)
ByteOf(v, k) == IF k = 0 THEN v % 256 ELSE ByteOf(v \div 256, k - 1)

\* The n-byte little-endian integer stored at offset a of m.
RECURSIVE RdLE(_, _, _)
RdLE(m, a, n) == IF n = 0 THEN 0 ELSE m[a] + 256 * RdLE(m, a + 1, n - 1)

\* m with the n-byte little-endian encoding of v stored at offset a.
WrLE(m, a, n, v) ==
  [i \in DOMAIN m |-> IF i >= a /\ i < a + n THEN ByteOf(v, i - a) ELSE m[i]]

\* fd.to_ne_bytes() copied into the data slice / curr.read_unaligned().
to_ne_bytes(m, a, fd) == WrLE(m, a, SizeofRawFd, fd)
read_unaligned(m, a) == RdLE(m, a, SizeofRawFd)

\* The fields of the cmsghdr at offset c.
cmsg_len(m, c) == RdLE(m, c, 8)
cmsg_level(m, c) == RdLE(m, c + 8, 4)
cmsg_type(m, c) == RdLE(m, c + 12, 4)

BufLen(m) == Cardinality(DOMAIN m)

\* ------------------------------------------------------- libc CMSG_* macros
CMSG_ALIGN(len) == ((len + SizeofUsize - 1) \div SizeofUsize) * SizeofUsize
CMSG_LEN(len) == CMSG_ALIGN(SizeofCmsghdr) + len
CMSG_SPACE(len) == CMSG_ALIGN(len) + CMSG_ALIGN(SizeofCmsghdr)
CMSG_DATA(c) == c + SizeofCmsghdr
CMSG_FIRSTHDR(mh) ==
  IF mh.msg_controllen >= SizeofCmsghdr THEN mh.msg_control ELSE Null
CMSG_NXTHDR(m, mh, c) ==
  IF cmsg_len(m, c) < SizeofCmsghdr THEN Null
  ELSE LET nxt == c + CMSG_ALIGN(cmsg_len(m, c))
           max == mh.msg_control + mh.msg_controllen
       IN IF nxt + SizeofCmsghdr > max THEN Null
          ELSE IF nxt + CMSG_ALIGN(cmsg_len(m, nxt)) > max THEN Null
          ELSE nxt

\* (count * size_of::<RawFd>()) as u32: the product is taken in a 64-bit
\* usize and narrowed to 32 bits, which is 4 * (count mod 2^30).
fds_bytes_as_u32(count) == SizeofRawFd * (count % (2 ^ 30))

cmsg_buffer_fds_space(count) == CMSG_SPACE(fds_bytes_as_u32(count))

\* Mutant of call_res: a return value of 0 is taken for a failure too.
call_res_positive(r) == IF r <= 0 THEN [ok |-> FALSE] ELSE [ok |-> TRUE, val |-> r]

\* call_res: -1 is the failure sentinel, every other value passes through.
call_res(r) == IF r = 0 - 1 THEN [ok |-> FALSE] ELSE [ok |-> TRUE, val |-> r]

\* ----------------------------------------------------- extraction sequence
\* Mutant of FdsIterData::new: a payload that is not a whole number of
\* RawFd's is rounded up.
FdsIterData_new_roundup(m, c) ==
  IF cmsg_level(m, c) = SOL_SOCKET /\ cmsg_type(m, c) = SCM_RIGHTS
  THEN LET p_start == CMSG_DATA(c)
           p_end == c + cmsg_len(m, c)
           data_size == p_end - p_start
           fds_count == (data_size + SizeofRawFd - 1) \div SizeofRawFd
       IN Some([curr |-> p_start, end |-> p_start + fds_count * SizeofRawFd])
  ELSE None

\* FdsIterData::new: the [curr, end) range of whole RawFd's of a message.
FdsIterData_new(m, c) ==
  IF cmsg_level(m, c) = SOL_SOCKET /\ cmsg_type(m, c) = SCM_RIGHTS
  THEN LET p_start == CMSG_DATA(c)
           p_end == c + cmsg_len(m, c)
           data_size == p_end - p_start
           fds_count == data_size \div SizeofRawFd
       IN Some([curr |-> p_start, end |-> p_start + fds_count * SizeofRawFd])
  ELSE None

\* Mutant of FdsIterData::next: the descriptors are read from the end of the
\* array backwards.
FdsIterData_next_rev(m, d) ==
  IF d.curr < d.end
  THEN [data |-> [d EXCEPT !.end = d.end - SizeofRawFd],
        item |-> Some(read_unaligned(m, d.end - SizeofRawFd))]
  ELSE [data |-> d, item |-> None]

\* Mutant of FdsIterData::next: the cursor moves two places.
FdsIterData_next_skip(m, d) ==
  IF d.curr < d.end
  THEN [data |-> [d EXCEPT !.curr = d.curr + 2 * SizeofRawFd],
        item |-> Some(read_unaligned(m, d.curr))]
  ELSE [data |-> d, item |-> None]

\* FdsIterData::next: [data', item].
FdsIterData_next(m, d) ==
  IF d.curr < d.end
  THEN [data |-> [d EXCEPT !.curr = d.curr + SizeofRawFd],
        item |-> Some(read_unaligned(m, d.curr))]
  ELSE [data |-> d, item |-> None]

\* Option<&cmsghdr> from a possibly null pointer (as_ref).
as_ref(p) == IF p = Null THEN None ELSE Some(p)

FdsIter_first_cmsg(mh) == as_ref(CMSG_FIRSTHDR(mh))

\* Option::and_then(FdsIterData::new)
and_then_data(m, oc) == IF IsSome(oc) THEN FdsIterData_new(m, Unwrap(oc)) ELSE None

\* Mutant of FdsIter::new: a first message that is not SCM_RIGHTS ends the
\* traversal.
FdsIter_new_stop(m, mh) ==
  LET c == FdsIter_first_cmsg(mh)
      d == and_then_data(m, c)
  IN IF d = None THEN [cmsg |-> None, data |-> None] ELSE [cmsg |-> c, data |-> d]

FdsIter_new(m, mh) ==
  LET c == FdsIter_first_cmsg(mh)
  IN [cmsg |-> c, data |-> and_then_data(m, c)]

FdsIter_empty == [cmsg |-> None, data |-> None]

advance_cmsg(m, mh, it) ==
  IF IsSome(it.cmsg)
  THEN LET new_cmsg == as_ref(CMSG_NXTHDR(m, mh, Unwrap(it.cmsg)))
       IN [cmsg |-> new_cmsg, data |-> and_then_data(m, new_cmsg)]
  ELSE it

\* Iterator::next for FdsIter: [it', item].
RECURSIVE FdsIter_next(_, _, _)
FdsIter_next(m, mh, it) ==
  LET r == IF IsSome(it.data) THEN FdsIterData_next(m, Unwrap(it.data))
           ELSE [data |-> None, item |-> None]
  IN IF IsSome(r.item)
     THEN [it |-> [it EXCEPT !.data = Some(r.data)], item |-> r.item]
     ELSE LET adv == advance_cmsg(m, mh, it)
          IN IF adv.cmsg = None THEN [it |-> adv, item |-> None]
             ELSE FdsIter_next(m, mh, adv)

\* The descriptors a drain of the iterator produces, in order
\* (the loop of Drop for FdsIter).
RECURSIVE Drain(_, _, _)
Drain(m, mh, it) ==
  LET r == FdsIter_next(m, mh, it)
  IN IF IsSome(r.item) THEN << Unwrap(r.item) >> \o Drain(m, mh, r.it) ELSE << >>

\* The iterator after that drain.
RECURSIVE Drained(_, _, _)
Drained(m, mh, it) ==
  LET r == FdsIter_next(m, mh, it)
  IN IF IsSome(r.item) THEN Drained(m, mh, r.it) ELSE r.it

\* ------------------------------------------------------------- send path
\* CMsgMut::first_cmsg: the first cmsghdr, initialised with the given level
\* and type and the largest cmsg_len the buffer allows: [cmsg, mem].
CMsgMut_first_cmsg(m, mh, level, typ) ==
  LET c == CMSG_FIRSTHDR(mh)
  IN IF c = Null THEN [cmsg |-> None, mem |-> m]
     ELSE LET control_max == mh.msg_control + mh.msg_controllen
              data == CMSG_DATA(c)
              data_size == control_max - data
              max_len == CMSG_LEN(data_size)
          IN [cmsg |-> Some(c),
              mem |-> WrLE(WrLE(WrLE(m, c + 8, 4, level), c + 12, 4, typ),
                           c, 8, max_len)]

\* CMsgMut::data: the data slice of the message, [ptr, len].
CMsgMut_data(m, c) ==
  LET data == CMSG_DATA(c)
      hdr_size == data - c
  IN [ptr |-> data, len |-> cmsg_len(m, c) - hdr_size]

\* Mutant of shrink_data_len: cmsg_len keeps the value first_cmsg gave it.
shrink_data_len_noop(m, c, len) == m

\* CMsgMut::shrink_data_len
shrink_data_len(m, c, len) ==
  LET new_len == CMSG_LEN(len)
  IN IF new_len < cmsg_len(m, c) THEN WrLE(m, c, 8, new_len) ELSE m

\* The caller's iterator of RawFd's: n items, the first Len(pre) of them
\* spelled out, the rest a repeated FirstFd.
FdAt(fds, i) == IF i <= Len(fds.pre) THEN fds.pre[i] ELSE FirstFd

\* Mutant of the encode loop: a descriptor is written when any byte is left.
RECURSIVE encode_loop_anybyte(_, _, _, _, _, _)
encode_loop_anybyte(m, ptr, len, fds, i, count) ==
  IF i > fds.n THEN [ok |-> TRUE, mem |-> m, count |-> count]
  ELSE IF len < 1 THEN [ok |-> FALSE, mem |-> m, count |-> count]
  ELSE encode_loop_anybyte(to_ne_bytes(m, ptr, FdAt(fds, i)), ptr + SizeofRawFd,
                           len - SizeofRawFd, fds, i + 1, count + 1)

\* The `for fd in fds` loop of encode_fds from item i on: [ok, mem, count].
RECURSIVE encode_loop(_, _, _, _, _, _)
encode_loop(m, ptr, len, fds, i, count) ==
  IF i > fds.n THEN [ok |-> TRUE, mem |-> m, count |-> count]
  ELSE IF len < SizeofRawFd THEN [ok |-> FALSE, mem |-> m, count |-> count]
  ELSE encode_loop(to_ne_bytes(m, ptr, FdAt(fds, i)), ptr + SizeofRawFd,
                   len - SizeofRawFd, fds, i + 1, count + 1)

\* The match of encode_fds: [ok, mem, count].
encode_count(m, mh, fds) ==
  LET f == CMsgMut_first_cmsg(m, mh, SOL_SOCKET, SCM_RIGHTS)
  IN IF f.cmsg = None
     THEN IF fds.n > 0 THEN [ok |-> FALSE, mem |-> f.mem, count |-> 0]
          ELSE [ok |-> TRUE, mem |-> f.mem, count |-> 0]
     ELSE LET c == Unwrap(f.cmsg)
              d == CMsgMut_data(f.mem, c)
              l == encode_loop(f.mem, d.ptr, d.len, fds, 1, 0)
          IN IF l.ok
             THEN [ok |-> TRUE, count |-> l.count,
                   mem |-> shrink_data_len(l.mem, c, l.count * SizeofRawFd)]
             ELSE l

\* Mutant of the adjustment: an empty encode keeps the control buffer and
\* announces a record without payload.
adjust_control_record(mh, count) ==
  [mh EXCEPT !.msg_controllen = cmsg_buffer_fds_space(count)]

\* "Adjust msg_control* now that we know the count of the fds"
adjust_control(mh, count) ==
  IF count = 0
  THEN [mh EXCEPT !.msg_control = Null, !.msg_controllen = 0]
  ELSE [mh EXCEPT !.msg_controllen = cmsg_buffer_fds_space(count)]

\* --------------------------------------------------- the kernel (recvmsg)
\* A control message the kernel delivers: level, type, a payload of 4-byte
\* values and `extra` further payload bytes (less than one RawFd).
PayLen(rec) == Len(rec.vals) * SizeofRawFd + rec.extra

RECURSIVE put_vals(_, _, _)
put_vals(m, a, vals) ==
  IF vals = << >> THEN m
  ELSE put_vals(WrLE(m, a, SizeofRawFd, Head(vals)), a + SizeofRawFd, Tail(vals))

put_cmsg(m, c, rec) ==
  LET h == WrLE(WrLE(WrLE(m, c, 8, CMSG_LEN(PayLen(rec))), c + 8, 4, rec.level),
                c + 12, 4, rec.type)
      v == put_vals(h, CMSG_DATA(c), rec.vals)
      e == CMSG_DATA(c) + Len(rec.vals) * SizeofRawFd
  IN [i \in DOMAIN v |-> IF i >= e /\ i < e + rec.extra THEN 255 ELSE v[i]]

RECURSIVE put_chain(_, _, _)
put_chain(m, c, recs) ==
  IF recs = << >> THEN m
  ELSE put_chain(put_cmsg(m, c, Head(recs)), c + CMSG_SPACE(PayLen(Head(recs))),
                 Tail(recs))

RECURSIVE ChainSpace(_)
ChainSpace(recs) ==
  IF recs = << >> THEN 0
  ELSE CMSG_SPACE(PayLen(Head(recs))) + ChainSpace(Tail(recs))

IsRights(rec) == rec.level = SOL_SOCKET /\ rec.type = SCM_RIGHTS

\* The descriptors the kernel installed for a chain, in chain order.
RECURSIVE ChainFds(_)
ChainFds(recs) ==
  IF recs = << >> THEN << >>
  ELSE (IF IsRights(Head(recs)) THEN Head(recs).vals ELSE << >>)
       \o ChainFds(Tail(recs))

\* Shapes of delivered messages: SCM_RIGHTS with n descriptors (and possibly
\* trailing payload bytes), or a message of another level or type.
Extras == {0, 2}
OtherKinds == {<< SOL_SOCKET, SCM_CREDENTIALS >>, << OtherLevel, SCM_RIGHTS >>}
RecShapes ==
  {[level |-> SOL_SOCKET, type |-> SCM_RIGHTS, n |-> n, extra |-> e] :
     n \in 0..MaxRecFds, e \in Extras}
  \cup {[level |-> k[1], type |-> k[2], n |-> 1, extra |-> 0] : k \in OtherKinds}
ChainShapes == UNION {[1..k -> RecShapes] : k \in 0..MaxRecs}

\* The kernel installs new descriptors, lowest first: the values in the
\* messages from position i on are consecutive, starting at `base`.
RECURSIVE fill_vals(_, _, _)
fill_vals(shapes, i, base) ==
  IF i > Len(shapes) THEN << >>
  ELSE LET s == shapes[i]
       IN << [level |-> s.level, type |-> s.type, extra |-> s.extra,
              vals |-> [j \in 1..s.n |-> base + j - 1]] >>
          \o fill_vals(shapes, i + 1, base + s.n)

KernelChains(len) ==
  {c \in {fill_vals(s, 1, FirstFd) : s \in ChainShapes} : ChainSpace(c) <= len}

\* recvmsg on success: the chain written into the control buffer,
\* msg_controllen set to the length used, msg_flags as reported.  Every
\* message, the last one too, takes CMSG_SPACE bytes, as in a control buffer
\* sized with cmsg_buffer_fds_space: a chain whose last message is cut short
\* of its padding by the end of the buffer is not among the inputs.
recvmsg_mem(m, chain) == put_chain(m, 0, chain)
recvmsg_mhdr(mh, chain, flags) ==
  [mh EXCEPT !.msg_controllen = ChainSpace(chain), !.msg_flags = flags]

\* ---------------------------------------------------------------- state
VARIABLES
  hdr,      \* the message header: its type state (tag) and fields
  mem,      \* the bytes of the caller's control buffer
  iters,    \* the FdsIter's made by take_fds, oldest first
  fds,      \* the Fd's handed to the caller by Iterator::next, oldest first
  closed,   \* bag of the descriptors passed to libc::close
  raw_out,  \* bag of the descriptors returned by into_raw_fd
  kchain,   \* the chain recvmsg delivered (None before a receive)
  enc_in,   \* the iterator passed to encode_fds (None before an encode)
  res,      \* outcome of the last fallible call
  ret,      \* what recvmsg, sendmsg, or the close of a caller's drop of an
            \* Fd, returned to the last operation (None when it called none)
  op        \* the last operation

vars == << hdr, mem, iters, fds, closed, raw_out, kchain, enc_in, res, ret, op >>

\* MsgHdr::new over a control buffer of the given length.
MsgHdr_new(len) == [msg_control |-> 0, msg_controllen |-> len, msg_flags |-> 0]

\* Lengths of the control buffer a sender, a receiver passes.
SendBufLens == 0..MaxBuf
RecvBufLens == {0, MaxBuf}

\* The inputs of encode_fds: every short sequence over the caller's
\* descriptors, and two very long ones.
EncIds == FirstFd..(FirstFd + NumIds - 1)
ShortFds == UNION {[1..k -> EncIds] : k \in 0..MaxFds}
LongCounts == {10, 2 ^ 30, 2 ^ 30 + 1}
FdsInputs ==
  {[n |-> Len(s), pre |-> s] : s \in ShortFds}
  \cup {[n |-> c, pre |-> << >>] : c \in LongCounts}

ByteCounts == {0, MaxBytes}

\* from_io_slice_mut / from_io_slice over a zeroed control buffer.
Init ==
  /\ \E tag \in {"RecvStart", "SendStart"} :
       \E len \in (IF tag = "RecvStart" THEN RecvBufLens ELSE SendBufLens) :
         /\ hdr = [tag |-> tag, mhdr |-> MsgHdr_new(len)]
         /\ mem = [i \in 0..(len - 1) |-> 0]
  /\ iters = << >>
  /\ fds = << >>
  /\ closed = EmptyBag
  /\ raw_out = EmptyBag
  /\ kchain = None
  /\ enc_in = None
  /\ res = "none"
  /\ ret = None
  /\ op = "new"

\* A header that was consumed or dropped; `was` is the state it was last in
\* and mhdr the msghdr it last held.
Gone(h) == [tag |-> "Gone", was |-> h.tag, mhdr |-> h.mhdr]

\* The bag b with one more copy of each element of the sequence s.
RECURSIVE AddAll(_, _)
AddAll(b, s) == IF s = << >> THEN b ELSE AddAll(b (+) SetToBag({Head(s)}), Tail(s))

\* An FdsIter with what became of it: st is "live", "dropped", "forgotten",
\* or "temp" for the one Drop for MsgHdrRecvEnd makes and drops; done tells
\* whether next() has returned None to the caller.
IterObj(it, st, done) == [cmsg |-> it.cmsg, data |-> it.data, st |-> st, done |-> done]

LiveIter == iters # << >> /\ iters[Len(iters)].st = "live"

\* ------------------------------------------------------------ receive path
\* MsgHdr<RecvStart>::recv
recv ==
  /\ hdr.tag = "RecvStart"
  /\ \E r \in {0 - 1} \cup ByteCounts :
       LET c == call_res(r)
       IN /\ ret' = Some(r)
          /\ IF c.ok
             THEN \E chain \in KernelChains(hdr.mhdr.msg_controllen),
                     flags \in {0, MSG_CTRUNC} :
                    /\ mem' = recvmsg_mem(mem, chain)
                    /\ hdr' = [tag |-> "RecvEnd",
                               mhdr |-> recvmsg_mhdr(hdr.mhdr, chain, flags),
                               bytes_recvieved |-> c.val,
                               fds_taken |-> FALSE]
                    /\ kchain' = Some(chain)
                    /\ res' = "Ok"
             ELSE /\ hdr' = Gone(hdr)
                  /\ res' = "OsError"
                  /\ UNCHANGED << mem, kchain >>
  /\ op' = "recv"
  /\ UNCHANGED << iters, fds, closed, raw_out, enc_in >>

bytes_recvieved(h) == h.bytes_recvieved

\* Mutant of was_control_truncated: the answer follows fds_taken.
was_control_truncated_taken(h) == h.fds_taken

was_control_truncated(h) == (h.mhdr.msg_flags \div MSG_CTRUNC) % 2 # 0

\* Mutant of take_fds: fds_taken is not set.
take_fds_result_noflag(m, h) ==
  IF h.fds_taken
  THEN [fds_taken |-> h.fds_taken, it |-> FdsIter_empty]
  ELSE [fds_taken |-> FALSE, it |-> FdsIter_new(m, h.mhdr)]

\* MsgHdrRecvEnd::take_fds: [fds_taken', the iterator returned].
take_fds_result(m, h) ==
  IF h.fds_taken
  THEN [fds_taken |-> h.fds_taken, it |-> FdsIter_empty]
  ELSE [fds_taken |-> TRUE, it |-> FdsIter_new(m, h.mhdr)]

\* The caller calls take_fds (the returned iterator borrows the header
\* mutably, so no earlier iterator is still alive).
take_fds ==
  /\ hdr.tag = "RecvEnd"
  /\ ~LiveIter
  /\ Len(iters) < MaxTakes
  /\ LET t == take_fds_result(mem, hdr)
     IN /\ hdr' = [hdr EXCEPT !.fds_taken = t.fds_taken]
        /\ iters' = Append(iters, IterObj(t.it, "live", FALSE))
  /\ ret' = None
  /\ op' = "take_fds"
  /\ UNCHANGED << mem, fds, closed, raw_out, kchain, enc_in, res >>

\* Mutant of Iterator::next: an iterator that has returned None starts over
\* at the first message.
next_restart ==
  /\ LiveIter
  /\ LET k == Len(iters)
         from == IF iters[k].done THEN FdsIter_new(mem, hdr.mhdr) ELSE iters[k]
         r == FdsIter_next(mem, hdr.mhdr, from)
     IN /\ iters' = [iters EXCEPT
                       ![k] = IterObj(r.it, "live", iters[k].done \/ r.item = None)]
        /\ fds' = IF IsSome(r.item)
                  THEN Append(fds, [fd |-> r.item, st |-> "live", src |-> k,
                                    id |-> Unwrap(r.item)])
                  ELSE fds
  /\ ret' = None
  /\ op' = "next"
  /\ UNCHANGED << hdr, mem, closed, raw_out, kchain, enc_in, res >>

\* Iterator::next on the live FdsIter.
next ==
  /\ LiveIter
  /\ LET k == Len(iters)
         r == FdsIter_next(mem, hdr.mhdr, iters[k])
     IN /\ iters' = [iters EXCEPT
                       ![k] = IterObj(r.it, "live", iters[k].done \/ r.item = None)]
        /\ fds' = IF IsSome(r.item)
                  THEN Append(fds, [fd |-> r.item, st |-> "live", src |-> k,
                                    id |-> Unwrap(r.item)])
                  ELSE fds
  /\ ret' = None
  /\ op' = "next"
  /\ UNCHANGED << hdr, mem, closed, raw_out, kchain, enc_in, res >>

\* Mutant of Drop for FdsIter: the drain starts over at the first message.
drop_FdsIter_restart ==
  /\ LiveIter
  /\ LET k == Len(iters)
         it == FdsIter_new(mem, hdr.mhdr)
     IN /\ closed' = AddAll(closed, Drain(mem, hdr.mhdr, it))
        /\ iters' = [iters EXCEPT
                       ![k] = IterObj(Drained(mem, hdr.mhdr, it), "dropped",
                                      iters[k].done)]
  /\ ret' = None
  /\ op' = "drop_FdsIter"
  /\ UNCHANGED << hdr, mem, fds, raw_out, kchain, enc_in, res >>

\* Drop for FdsIter: every remaining Fd is produced and dropped.
drop_FdsIter ==
  /\ LiveIter
  /\ LET k == Len(iters)
     IN /\ closed' = AddAll(closed, Drain(mem, hdr.mhdr, iters[k]))
        /\ iters' = [iters EXCEPT
                       ![k] = IterObj(Drained(mem, hdr.mhdr, iters[k]), "dropped",
                                      iters[k].done)]
  /\ ret' = None
  /\ op' = "drop_FdsIter"
  /\ UNCHANGED << hdr, mem, fds, raw_out, kchain, enc_in, res >>

\* mem::forget of the FdsIter: its Drop does not run.
forget_FdsIter ==
  /\ LiveIter
  /\ iters' = [iters EXCEPT ![Len(iters)].st = "forgotten"]
  /\ ret' = None
  /\ op' = "forget_FdsIter"
  /\ UNCHANGED << hdr, mem, fds, closed, raw_out, kchain, enc_in, res >>

\* Mutant of the test of Drop for MsgHdrRecvEnd: the drop never cleans up.
drop_calls_take_fds_never(h) == FALSE

\* The test of Drop for MsgHdrRecvEnd.
drop_calls_take_fds(h) == ~h.fds_taken

\* Mutant of Drop for MsgHdrRecvEnd: every descriptor in the buffer is
\* closed, whatever fds_taken says.
drop_MsgHdrRecvEnd_always ==
  /\ hdr.tag = "RecvEnd"
  /\ ~LiveIter
  /\ LET it == FdsIter_new(mem, hdr.mhdr)
     IN /\ closed' = AddAll(closed, Drain(mem, hdr.mhdr, it))
        /\ iters' = Append(iters, IterObj(Drained(mem, hdr.mhdr, it), "temp", FALSE))
  /\ hdr' = Gone(hdr)
  /\ ret' = None
  /\ op' = "drop_MsgHdrRecvEnd"
  /\ UNCHANGED << mem, fds, raw_out, kchain, enc_in, res >>

\* Drop for MsgHdrRecvEnd: `if !self.fds_taken { drop(self.take_fds()) }`.
drop_MsgHdrRecvEnd ==
  /\ hdr.tag = "RecvEnd"
  /\ ~LiveIter
  /\ IF drop_calls_take_fds(hdr)
     THEN LET t == take_fds_result(mem, hdr)
          IN /\ closed' = AddAll(closed, Drain(mem, hdr.mhdr, t.it))
             /\ iters' = Append(iters, IterObj(Drained(mem, hdr.mhdr, t.it),
                                               "temp", FALSE))
     ELSE UNCHANGED << closed, iters >>
  /\ hdr' = Gone(hdr)
  /\ ret' = None
  /\ op' = "drop_MsgHdrRecvEnd"
  /\ UNCHANGED << mem, fds, raw_out, kchain, enc_in, res >>

\* Mutant of Drop for Fd: the descriptor is not closed.
drop_Fd_noclose(i) ==
  /\ fds[i].st = "live"
  /\ fds' = [fds EXCEPT ![i].st = "dropped"]
  /\ ret' = None
  /\ op' = "drop_Fd"
  /\ UNCHANGED << hdr, mem, iters, closed, raw_out, kchain, enc_in, res >>

\* What libc::close may return.
CloseResults == {0, 0 - 1}

\* Mutant of Drop for Fd: a failed close leaves the Fd undestroyed.
drop_Fd_abort(i) ==
  /\ fds[i].st = "live"
  /\ IF IsSome(fds[i].fd)
     THEN \E cr \in CloseResults :
            /\ closed' = AddAll(closed, fds[i].fd)
            /\ ret' = Some(cr)
            /\ fds' = IF cr = 0 THEN [fds EXCEPT ![i].st = "dropped"] ELSE fds
     ELSE /\ closed' = closed
          /\ ret' = None
          /\ fds' = [fds EXCEPT ![i].st = "dropped"]
  /\ op' = "drop_Fd"
  /\ UNCHANGED << hdr, mem, iters, raw_out, kchain, enc_in, res >>

\* Drop for Fd: close the descriptor if it is still held; what close
\* returns is not looked at.
drop_Fd(i) ==
  /\ fds[i].st = "live"
  /\ IF IsSome(fds[i].fd)
     THEN \E cr \in CloseResults :
            /\ closed' = AddAll(closed, fds[i].fd)
            /\ ret' = Some(cr)
     ELSE /\ closed' = closed
          /\ ret' = None
  /\ fds' = [fds EXCEPT ![i].st = "dropped"]
  /\ op' = "drop_Fd"
  /\ UNCHANGED << hdr, mem, iters, raw_out, kchain, enc_in, res >>

\* Mutant of into_raw_fd: the descriptor is copied out, not taken, so the
\* drop of self closes it.
into_raw_fd_copy(i) ==
  /\ fds[i].st = "live"
  /\ IF IsSome(fds[i].fd)
     THEN /\ raw_out' = AddAll(raw_out, fds[i].fd)
          /\ closed' = AddAll(closed, fds[i].fd)
          /\ fds' = [fds EXCEPT ![i].st = "dropped"]
          /\ res' = "Ok"
     ELSE /\ res' = "panic"
          /\ fds' = [fds EXCEPT ![i].st = "dropped"]
          /\ UNCHANGED << raw_out, closed >>
  /\ ret' = None
  /\ op' = "into_raw_fd"
  /\ UNCHANGED << hdr, mem, iters, kchain, enc_in >>

\* Mutant of into_raw_fd: an empty Fd gives out the descriptor it once held.
into_raw_fd_stale(i) ==
  /\ fds[i].st = "live"
  /\ raw_out' = AddAll(raw_out, << fds[i].id >>)
  /\ fds' = [fds EXCEPT ![i] = [@ EXCEPT !.fd = None, !.st = "dropped"]]
  /\ res' = "Ok"
  /\ ret' = None
  /\ op' = "into_raw_fd"
  /\ UNCHANGED << hdr, mem, iters, closed, kchain, enc_in >>

\* IntoRawFd for Fd: take() the descriptor out, then self is dropped empty;
\* expect() panics on an Fd that is empty already, and the unwinding drops it.
into_raw_fd(i) ==
  /\ fds[i].st = "live"
  /\ IF IsSome(fds[i].fd)
     THEN /\ raw_out' = AddAll(raw_out, fds[i].fd)
          /\ fds' = [fds EXCEPT ![i] = [@ EXCEPT !.fd = None, !.st = "dropped"]]
          /\ res' = "Ok"
     ELSE /\ res' = "panic"
          /\ fds' = [fds EXCEPT ![i].st = "dropped"]
          /\ UNCHANGED raw_out
  /\ ret' = None
  /\ op' = "into_raw_fd"
  /\ UNCHANGED << hdr, mem, iters, closed, kchain, enc_in >>

\* --------------------------------------------------------------- send path
\* Mutant of encode_fds: a failed encode hands the header back.
encode_fds_retry ==
  /\ hdr.tag = "SendStart"
  /\ \E f \in FdsInputs :
       LET e == encode_count(mem, hdr.mhdr, f)
       IN /\ mem' = e.mem
          /\ enc_in' = Some(f)
          /\ IF e.ok
             THEN /\ hdr' = [tag |-> "SendReady",
                             mhdr |-> adjust_control(hdr.mhdr, e.count),
                             state |-> [fds_count |-> e.count]]
                  /\ res' = "Ok"
             ELSE /\ hdr' = hdr
                  /\ res' = "BufferTooSmall"
  /\ ret' = None
  /\ op' = "encode_fds"
  /\ UNCHANGED << iters, fds, closed, raw_out, kchain >>

\* MsgHdr<SendStart>::encode_fds
encode_fds ==
  /\ hdr.tag = "SendStart"
  /\ \E f \in FdsInputs :
       LET e == encode_count(mem, hdr.mhdr, f)
       IN /\ mem' = e.mem
          /\ enc_in' = Some(f)
          /\ IF e.ok
             THEN /\ hdr' = [tag |-> "SendReady",
                             mhdr |-> adjust_control(hdr.mhdr, e.count),
                             state |-> [fds_count |-> e.count]]
                  /\ res' = "Ok"
             ELSE /\ hdr' = Gone(hdr)
                  /\ res' = "BufferTooSmall"
  /\ ret' = None
  /\ op' = "encode_fds"
  /\ UNCHANGED << iters, fds, closed, raw_out, kchain >>

\* Mutant of send: the header takes the encoded descriptors over and closes
\* them once they are sent.
send_closing ==
  /\ hdr.tag = "SendReady"
  /\ \E r \in {0 - 1} \cup ByteCounts :
       LET c == call_res(r)
       IN /\ ret' = Some(r)
          /\ IF c.ok
             THEN /\ hdr' = [tag |-> "SendEnd", mhdr |-> hdr.mhdr,
                             state |-> [bytes_sent |-> c.val,
                                        fds_sent |-> hdr.state.fds_count]]
                  /\ res' = "Ok"
             ELSE /\ hdr' = Gone(hdr)
                  /\ res' = "OsError"
  /\ closed' = AddAll(closed, [i \in 1..hdr.state.fds_count |->
                                 FdAt(Unwrap(enc_in), i)])
  /\ op' = "send"
  /\ UNCHANGED << mem, iters, fds, raw_out, kchain, enc_in >>

\* Mutant of send: the header is accepted before encode_fds has run.
send_unencoded ==
  /\ hdr.tag \in {"SendStart", "SendReady"}
  /\ \E r \in {0 - 1} \cup ByteCounts :
       LET c == call_res(r)
       IN /\ ret' = Some(r)
          /\ IF c.ok
             THEN /\ hdr' = [tag |-> "SendEnd", mhdr |-> hdr.mhdr,
                             state |-> [bytes_sent |-> c.val,
                                        fds_sent |-> IF hdr.tag = "SendReady"
                                                     THEN hdr.state.fds_count ELSE 0]]
                  /\ res' = "Ok"
             ELSE /\ hdr' = Gone(hdr)
                  /\ res' = "OsError"
  /\ op' = "send"
  /\ UNCHANGED << mem, iters, fds, closed, raw_out, kchain, enc_in >>

\* Mutant of send: fds_sent is taken from the result of sendmsg.
send_fds_from_bytes ==
  /\ hdr.tag = "SendReady"
  /\ \E r \in {0 - 1} \cup ByteCounts :
       LET c == call_res(r)
       IN /\ ret' = Some(r)
          /\ IF c.ok
             THEN /\ hdr' = [tag |-> "SendEnd", mhdr |-> hdr.mhdr,
                             state |-> [bytes_sent |-> c.val, fds_sent |-> c.val]]
                  /\ res' = "Ok"
             ELSE /\ hdr' = Gone(hdr)
                  /\ res' = "OsError"
  /\ op' = "send"
  /\ UNCHANGED << mem, iters, fds, closed, raw_out, kchain, enc_in >>

\* MsgHdr<SendReady>::send
send ==
  /\ hdr.tag = "SendReady"
  /\ \E r \in {0 - 1} \cup ByteCounts :
       LET c == call_res(r)
       IN /\ ret' = Some(r)
          /\ IF c.ok
             THEN /\ hdr' = [tag |-> "SendEnd", mhdr |-> hdr.mhdr,
                             state |-> [bytes_sent |-> c.val,
                                        fds_sent |-> hdr.state.fds_count]]
                  /\ res' = "Ok"
             ELSE /\ hdr' = Gone(hdr)
                  /\ res' = "OsError"
  /\ op' = "send"
  /\ UNCHANGED << mem, iters, fds, closed, raw_out, kchain, enc_in >>

bytes_sent(h) == h.state.bytes_sent
fds_sent(h) == h.state.fds_sent

\* A MsgHdr in any state but RecvEnd has no Drop implementation.
drop_MsgHdr ==
  /\ hdr.tag \in {"RecvStart", "SendStart", "SendReady", "SendEnd"}
  /\ hdr' = Gone(hdr)
  /\ ret' = None
  /\ op' = "drop_MsgHdr"
  /\ UNCHANGED << mem, iters, fds, closed, raw_out, kchain, enc_in, res >>

Next ==
  \/ recv
  \/ take_fds
  \/ next
  \/ drop_FdsIter
  \/ forget_FdsIter
  \/ drop_MsgHdrRecvEnd
  \/ \E i \in 1..Len(fds) : drop_Fd(i)
  \/ \E i \in 1..Len(fds) : into_raw_fd(i)
  \/ encode_fds
  \/ send
  \/ drop_MsgHdr

Spec == Init /\ [][Next]_vars

\* ----------------------------------------- round trip of the encoding
\* The construction of tests::recv_end_take_fds_twice_is_empty: a
\* MsgHdrRecvEnd built over the msghdr of a SendReady header.
test_recv_end ==
  /\ hdr.tag = "SendReady"
  /\ hdr' = [tag |-> "RecvEnd", mhdr |-> hdr.mhdr, bytes_recvieved |-> 0,
             fds_taken |-> FALSE]
  /\ ret' = None
  /\ op' = "test_recv_end"
  /\ UNCHANGED << mem, iters, fds, closed, raw_out, kchain, enc_in, res >>

RTInit == Init /\ hdr.tag = "SendStart"

RTNext ==
  \/ encode_fds
  \/ test_recv_end
  \/ take_fds
  \/ next

RoundTripSpec == RTInit /\ [][RTNext]_vars

\* ------------------------------------------------------------ vocabulary
Range(s) == {s[i] : i \in 1..Len(s)}

\* The descriptors recvmsg delivered, in chain order.
RecvIds == IF IsSome(kchain) THEN ChainFds(Unwrap(kchain)) ELSE << >>
RecvIdSet == Range(RecvIds)

\* The descriptors iterator k has handed to the caller, in order.
RECURSIVE IdsOf(_, _)
IdsOf(fs, k) ==
  IF fs = << >> THEN << >>
  ELSE (IF Head(fs).src = k THEN << Head(fs).id >> ELSE << >>) \o IdsOf(Tail(fs), k)
ProducedBy(k) == IdsOf(fds, k)

\* The descriptors iterator k has not produced yet.
Remaining(k) == Drain(mem, hdr.mhdr, iters[k])

\* The bag holding each element of the sequence s once per occurrence.
BagOf(s) == AddAll(EmptyBag, s)

\* How many owners the descriptor x has: the MsgHdrRecvEnd before take_fds,
\* the remainder of an FdsIter that was not dropped, a live Fd holding it.
Owners(x) ==
  (IF hdr.tag = "RecvEnd" /\ ~hdr.fds_taken THEN 1 ELSE 0)
  + Cardinality({k \in 1..Len(iters) :
                   iters[k].st \in {"live", "forgotten"} /\ x \in Range(Remaining(k))})
  + Cardinality({i \in 1..Len(fds) : fds[i].st = "live" /\ fds[i].fd = Some(x)})

C2_NoDoubleClose ==
  \A x \in RecvIdSet \cup BagToSet(closed) \cup BagToSet(raw_out) :
    /\ CopiesIn(x, closed) <= 1
    /\ CopiesIn(x, raw_out) >= 1 => CopiesIn(x, closed) = 0

\* The header was dropped after its iterator was forgotten part-way: one
\* descriptor closed by an Fd, one returned by into_raw_fd, one left behind.
C2_Witness ==
  /\ op = "drop_MsgHdrRecvEnd"
  /\ closed # EmptyBag /\ raw_out # EmptyBag
  /\ \E k \in 1..Len(iters) : iters[k].st = "forgotten" /\ Remaining(k) # << >>

\* Everything on the receive side was destroyed and nothing was forgotten.
AllDestroyed ==
  /\ IsSome(kchain)
  /\ hdr.tag = "Gone" /\ hdr.was = "RecvEnd"
  /\ \A k \in 1..Len(iters) : iters[k].st \in {"dropped", "temp"}
  /\ \A i \in 1..Len(fds) : fds[i].st = "dropped"

C6_OneShot ==
  \A k \in 2..Len(iters) : ProducedBy(k) = << >> /\ Remaining(k) = << >>

\* The first iterator was forgotten part-way and the second one has
\* returned None.
C6_Witness ==
  /\ Len(iters) = 2
  /\ iters[1].st = "forgotten"
  /\ ProducedBy(1) # << >> /\ Remaining(1) # << >>
  /\ iters[2].done

\* C7: dropping a MsgHdrRecvEnd after take_fds was called closes nothing,
\* and what a forgotten iterator had not produced is never closed.
C7_LeakEscapeHatch ==
  /\ [][(hdr.tag = "RecvEnd" /\ hdr.fds_taken /\ hdr'.tag = "Gone")
          => closed' = closed]_vars
  /\ [](\A k \in 1..Len(iters) :
          iters[k].st = "forgotten" =>
            \A x \in Range(Remaining(k)) : CopiesIn(x, closed) = 0)

\* The header was dropped after its only iterator produced a descriptor and
\* was forgotten with two more left.
C7_Witness ==
  /\ op = "drop_MsgHdrRecvEnd"
  /\ Len(iters) = 1 /\ iters[1].st = "forgotten"
  /\ Len(ProducedBy(1)) = 1
  /\ Len(Remaining(1)) >= 2

\* The sequence the caller's iterator yields.
Expected(f) == [i \in 1..f.n |-> FdAt(f, i)]

IsPrefix(s, t) == Len(s) <= Len(t) /\ s = SubSeq(t, 1, Len(s))

\* C8: the iterator over the msghdr that a successful encode_fds left
\* produces the encoded descriptors, same values, same order, and no more.
C8_RoundTrip ==
  (hdr.tag = "RecvEnd" /\ iters # << >>) =>
    LET f == Unwrap(enc_in)
    IN /\ IsPrefix(ProducedBy(1), Expected(f))
       /\ iters[1].done => (ProducedBy(1) = Expected(f) /\ Len(fds) = f.n)

\* Three descriptors, not all equal, were encoded into a buffer with room
\* to spare and the iterator ran to its end.
C8_Witness ==
  /\ hdr.tag = "RecvEnd" /\ iters # << >> /\ iters[1].done
  /\ Len(fds) = 3
  /\ fds[1].id # fds[2].id
  /\ BufLen(mem) > cmsg_buffer_fds_space(3)

\* The same with nothing encoded: the control pointer is null.
C8_WitnessEmpty ==
  /\ hdr.tag = "RecvEnd" /\ iters # << >> /\ iters[1].done
  /\ Unwrap(enc_in).n = 0 /\ fds = << >>
  /\ hdr.mhdr.msg_control = Null

\* C9: encode_fds of N descriptors into a buffer of at least
\* cmsg_buffer_fds_space(N) bytes succeeds with fds_count = N.
C9_Sufficient ==
  (op = "encode_fds" /\ BufLen(mem) >= cmsg_buffer_fds_space(Unwrap(enc_in).n))
    => (res = "Ok" /\ hdr.tag = "SendReady"
        /\ hdr.state.fds_count = Unwrap(enc_in).n)

\* The payload capacity of a control buffer of len bytes.
PayloadCapacity(len) == IF len >= SizeofCmsghdr THEN len - SizeofCmsghdr ELSE 0

\* C10: encode_fds fails with BufferTooSmall, and leaves no SendReady, when
\* N descriptors need more bytes than the payload capacity of the buffer
\* (N * 4 > capacity, written as N > capacity div 4).
C10_BufferTooSmall ==
  (op = "encode_fds"
   /\ Unwrap(enc_in).n > PayloadCapacity(BufLen(mem)) \div SizeofRawFd)
    => (res = "BufferTooSmall" /\ hdr.tag = "Gone")

\* Ten descriptors into a buffer sized for one, as in the test.
C10_Witness ==
  /\ op = "encode_fds"
  /\ Unwrap(enc_in).n = 10
  /\ BufLen(mem) = cmsg_buffer_fds_space(1)
  /\ res = "BufferTooSmall"

\* ------------------------------------------------------------ send path claims
\* C11: when encode_fds fails with BufferTooSmall, the control buffer after
\* the call holds the bytes it held before the call: no cmsghdr field and no
\* descriptor has been written into it.
C11_NoPartialEncode ==
  [][(encode_fds /\ res' = "BufferTooSmall") => mem' = mem]_vars

\* C12: encode_fds of an empty iterator succeeds whatever the length of the
\* control buffer, gives a SendReady with fds_count 0, and leaves the msghdr
\* without control data: msg_control null and msg_controllen 0.
C12_EmptyEncode ==
  (op = "encode_fds" /\ Unwrap(enc_in).n = 0)
    => /\ res = "Ok"
       /\ hdr.tag = "SendReady"
       /\ hdr.state.fds_count = 0
       /\ hdr.mhdr.msg_control = Null
       /\ hdr.mhdr.msg_controllen = 0

\* An empty encode over a buffer with room for a record.
C12_Witness ==
  /\ op = "encode_fds"
  /\ Unwrap(enc_in).n = 0
  /\ BufLen(mem) >= cmsg_buffer_fds_space(1)
  /\ hdr.tag = "SendReady"

\* An empty encode over an empty buffer.
C12_WitnessZero ==
  /\ op = "encode_fds"
  /\ Unwrap(enc_in).n = 0
  /\ BufLen(mem) = 0
  /\ hdr.tag = "SendReady"

\* The transitions of the state machine: from, to, the method that makes it.
LegalTransitions ==
  {<< "RecvStart", "RecvEnd", "recv" >>,
   << "SendStart", "SendReady", "encode_fds" >>,
   << "SendReady", "SendEnd", "send" >>}

\* C13: a header changes state only by RecvStart -recv-> RecvEnd,
\* SendStart -encode_fds-> SendReady and SendReady -send-> SendEnd, each on
\* success of the method, or by being consumed or dropped, after which it is
\* never used again.  recv, encode_fds and send take the header in the one
\* state they are defined on and always take it out of that state, so send
\* never precedes a successful encode_fds, none of the three runs twice on a
\* header, and no header crosses between the receive and the send path.
C13_LegalCallOrder ==
  [][/\ (hdr'.tag # hdr.tag /\ hdr'.tag # "Gone")
          => (<< hdr.tag, hdr'.tag, op' >> \in LegalTransitions /\ res' = "Ok")
     /\ hdr.tag = "Gone" => hdr'.tag = "Gone"
     /\ op' = "recv" => (hdr.tag = "RecvStart" /\ hdr'.tag \in {"RecvEnd", "Gone"})
     /\ op' = "encode_fds"
          => (hdr.tag = "SendStart" /\ hdr'.tag \in {"SendReady", "Gone"})
     /\ op' = "send" => (hdr.tag = "SendReady" /\ hdr'.tag \in {"SendEnd", "Gone"})
    ]_vars

\* A header that went through encode_fds and then send.
C13_Witness ==
  /\ hdr.tag = "SendEnd"
  /\ op = "send"
  /\ IsSome(enc_in)

\* A header that went through recv.
C13_WitnessRecv == hdr.tag = "RecvEnd" /\ op = "recv" /\ enc_in = None

C15_OsErrorPropagation ==
  (op \in {"recv", "send"})
    => LET r == Unwrap(ret)
       IN /\ (res = "OsError") <=> (r = 0 - 1)
          /\ (r = 0 - 1) => hdr.tag = "Gone"
          /\ (r # 0 - 1)
               => /\ res = "Ok"
                  /\ op = "recv" => (hdr.tag = "RecvEnd" /\ bytes_recvieved(hdr) = r)
                  /\ op = "send" => (hdr.tag = "SendEnd" /\ bytes_sent(hdr) = r)

\* sendmsg fails on an encoded header.
C15_Witness ==
  /\ op = "send"
  /\ ret = Some(0 - 1)
  /\ res = "OsError"
  /\ hdr.tag = "Gone"

\* recvmsg returns 0.
C15_WitnessZero ==
  /\ op = "recv"
  /\ ret = Some(0)
  /\ res = "Ok"
  /\ hdr.tag = "RecvEnd"

\* C16: after a successful send, fds_sent() is the number of descriptors
\* the encode_fds on this header accepted, whatever sendmsg returned, and
\* bytes_sent() is the value sendmsg returned.
C16_SendResult ==
  (op = "send" /\ res = "Ok")
    => /\ hdr.tag = "SendEnd"
       /\ fds_sent(hdr) = Unwrap(enc_in).n
       /\ bytes_sent(hdr) = Unwrap(ret)

\* Several descriptors sent with no payload byte.
C16_Witness ==
  /\ op = "send"
  /\ res = "Ok"
  /\ Unwrap(enc_in).n > 1
  /\ ret = Some(0)
  /\ fds_sent(hdr) > bytes_sent(hdr)

\* ------------------------------------------------------------ Fd claims
\* C17: an Fd the caller turned into a RawFd with into_raw_fd gave out its
\* descriptor once and is empty, and its destruction closed nothing; an Fd
\* dropped while it held its descriptor passed it to close exactly once; an Fd
\* still alive holds its descriptor, not yet closed or given out; and a drop
\* whose close failed has destroyed the Fd all the same.
C17_TransferOut ==
  /\ \A i \in 1..Len(fds) :
       LET x == fds[i].id
       IN /\ fds[i].st = "live"
               => (fds[i].fd = Some(x) /\ CopiesIn(x, closed) = 0
                   /\ CopiesIn(x, raw_out) = 0)
          /\ (fds[i].st = "dropped" /\ fds[i].fd = None)
               => (CopiesIn(x, raw_out) = 1 /\ CopiesIn(x, closed) = 0)
          /\ (fds[i].st = "dropped" /\ IsSome(fds[i].fd))
               => (fds[i].fd = Some(x) /\ CopiesIn(x, closed) = 1
                   /\ CopiesIn(x, raw_out) = 0)
  /\ op = "drop_Fd"
       => (ret \in {Some(cr) : cr \in CloseResults}
           /\ \E i \in 1..Len(fds) :
                /\ fds[i].st = "dropped"
                /\ IsSome(fds[i].fd)
                /\ CopiesIn(fds[i].id, closed) = 1)
  /\ op = "into_raw_fd" => res = "Ok"

\* One Fd was turned into a RawFd, then another was dropped and its close
\* failed.
C17_Witness ==
  /\ op = "drop_Fd"
  /\ ret = Some(0 - 1)
  /\ \E i \in 1..Len(fds) : fds[i].st = "dropped" /\ fds[i].fd = None
  /\ \E i \in 1..Len(fds) : fds[i].st = "dropped" /\ IsSome(fds[i].fd)

\* C18: the MsgHdrRecvEnd a successful recv returns has fds_taken false,
\* bytes_recvieved() equal to what recvmsg returned and
\* was_control_truncated() true exactly when the msg_flags recvmsg stored have
\* MSG_CTRUNC set; and as long as the MsgHdrRecvEnd exists no step (take_fds,
\* next, the drop or the forgetting of an FdsIter, operations on the Fd's)
\* changes what either accessor returns.
C18_ReceiveResultFixed ==
  [][/\ (op' = "recv" /\ res' = "Ok")
          => /\ hdr'.tag = "RecvEnd"
             /\ hdr'.fds_taken = FALSE
             /\ bytes_recvieved(hdr') = Unwrap(ret')
             /\ was_control_truncated(hdr') <=> (hdr'.mhdr.msg_flags = MSG_CTRUNC)
     /\ (hdr.tag = "RecvEnd" /\ hdr'.tag = "RecvEnd")
          => /\ bytes_recvieved(hdr') = bytes_recvieved(hdr)
             /\ was_control_truncated(hdr') = was_control_truncated(hdr)
    ]_vars

\* A truncated receive of MaxBytes bytes whose descriptors were taken and
\* produced, the iterator then dropped: the accessors still report it.
C18_Witness ==
  /\ hdr.tag = "RecvEnd"
  /\ hdr.fds_taken
  /\ fds # << >>
  /\ iters # << >>
  /\ iters[1].st = "dropped"
  /\ was_control_truncated(hdr)
  /\ bytes_recvieved(hdr) = MaxBytes

\* C19: whenever encode_fds succeeds, the msg_controllen of the SendReady
\* msghdr is at most the length of the control buffer the header was built
\* over.
C19_ControlLenNotLengthened ==
  (op = "encode_fds" /\ res = "Ok") => hdr.mhdr.msg_controllen <= BufLen(mem)

C21_Necessary ==
  (op = "encode_fds" /\ Unwrap(enc_in).n > 0
   /\ BufLen(mem) < cmsg_buffer_fds_space(Unwrap(enc_in).n))
    => (res = "BufferTooSmall" /\ hdr.tag = "Gone")

\* The number of whole RawFd's in the payload of a delivered message: its
\* declared length less the header, divided by the size of a RawFd.
Quotient(rec) == (CMSG_LEN(PayLen(rec)) - SizeofCmsghdr) \div SizeofRawFd

RECURSIVE SumQuotients(_)
SumQuotients(recs) ==
  IF recs = << >> THEN 0
  ELSE (IF IsRights(Head(recs)) THEN Quotient(Head(recs)) ELSE 0)
       + SumQuotients(Tail(recs))

C23_Terminates ==
  [][next
       => LET k == Len(iters)
              left == Len(Remaining(k))
              left1 == Len(Drain(mem, hdr.mhdr, iters'[k]))
          IN /\ \/ (Len(fds') = Len(fds) + 1 /\ left1 = left - 1
                    /\ ~iters'[k].done)
                \/ (fds' = fds /\ left = 0 /\ left1 = 0 /\ iters'[k].done)
             /\ (IsSome(iters[k].cmsg) /\ IsSome(iters'[k].cmsg))
                  => Unwrap(iters'[k].cmsg) >= Unwrap(iters[k].cmsg)
             /\ iters[k].cmsg = None => iters'[k].cmsg = None
             /\ iters[k].done
                  => (iters' = iters /\ fds' = fds /\ closed' = closed
                      /\ raw_out' = raw_out)
    ]_vars

\* The iterator over a chain of two messages with descriptors has returned
\* None, and next() was called again.
C23_Witness ==
  /\ op = "next"
  /\ LiveIter
  /\ iters[1].done
  /\ iters[1].cmsg = None
  /\ IsSome(kchain)
  /\ Len(Unwrap(kchain)) > 1
  /\ Len(ProducedBy(1)) > Len(Unwrap(kchain)[1].vals)

FdInit ==
  /\ \E k \in 1..MaxFds :
       \E e \in SUBSET (1..k) :
         fds = [i \in 1..k |->
                  [fd |-> IF i \in e THEN None ELSE Some(FirstFd + i - 1),
                   st |-> "live", src |-> 0, id |-> FirstFd + i - 1]]
  /\ hdr = Gone([tag |-> "RecvEnd", mhdr |-> MsgHdr_new(0)])
  /\ mem = [i \in 0..(0 - 1) |-> 0]
  /\ iters = << >>
  /\ closed = EmptyBag
  /\ raw_out = EmptyBag
  /\ kchain = None
  /\ enc_in = None
  /\ res = "none"
  /\ ret = None
  /\ op = "new"

FdNext ==
  \/ \E i \in 1..Len(fds) : drop_Fd(i)
  \/ \E i \in 1..Len(fds) : into_raw_fd(i)

FdSpec == FdInit /\ [][FdNext]_vars

\* C25: into_raw_fd on an Fd whose descriptor is already absent panics: it
\* returns no descriptor and closes none; and no descriptor is ever returned
\* twice by into_raw_fd.
C25_DoubleTransferOut ==
  /\ [][\A i \in 1..Len(fds) :
          (into_raw_fd(i) /\ fds[i].fd = None)
            => (res' = "panic" /\ raw_out' = raw_out /\ closed' = closed)]_vars
  /\ [](\A x \in BagToSet(raw_out) : CopiesIn(x, raw_out) = 1)

\* into_raw_fd has panicked on an empty Fd after another Fd gave out its
\* descriptor.
C25_Witness ==
  /\ op = "into_raw_fd"
  /\ res = "panic"
  /\ raw_out # EmptyBag
  /\ \E i \in 1..Len(fds) :
       fds[i].fd = None /\ fds[i].st = "dropped" /\ CopiesIn(fds[i].id, raw_out) = 0

\* ------------------------------------------------------ send path: frame
\* The header is, or was when it was consumed or dropped, on the send path.
OnSendPath ==
  \/ hdr.tag \in {"SendStart", "SendReady", "SendEnd"}
  \/ (hdr.tag = "Gone" /\ hdr.was \in {"SendStart", "SendReady", "SendEnd"})

\* C26: on the send path nothing is ever passed to close: neither
\* from_io_slice, encode_fds or send, succeeding or failing, nor the drop of
\* a SendStart, SendReady or SendEnd header closes a descriptor given to
\* encode_fds; the path makes no Fd and returns no descriptor either.
C26_SendOwnsNothing ==
  OnSendPath => (closed = EmptyBag /\ fds = << >> /\ raw_out = EmptyBag)

\* Descriptors were encoded and sent, and the SendEnd header dropped.
C26_Witness ==
  /\ hdr.tag = "Gone"
  /\ hdr.was = "SendEnd"
  /\ op = "drop_MsgHdr"
  /\ IsSome(enc_in)
  /\ Unwrap(enc_in).n > 1
  /\ closed = EmptyBag

\* C27: a header on which encode_fds failed with BufferTooSmall, or recv or
\* send with an OS error, is gone: it is in no state of the state machine,
\* and a header that is gone stays gone: no recv, encode_fds, send or
\* take_fds happens on it (a retry starts from a new header).
C27_FailureTerminal ==
  /\ []((op \in {"recv", "encode_fds", "send"}
         /\ res \in {"BufferTooSmall", "OsError"}) => hdr.tag = "Gone")
  /\ [][hdr.tag = "Gone"
          => (hdr' = hdr /\ op' \notin {"recv", "encode_fds", "send", "take_fds"})
       ]_vars

\* recv has failed on a RecvStart header.
C27_Witness ==
  /\ op = "recv"
  /\ res = "OsError"
  /\ hdr.tag = "Gone"
  /\ hdr.was = "RecvStart"
  /\ kchain = None

\* encode_fds has failed on a SendStart header.
C27_WitnessEncode ==
  /\ op = "encode_fds"
  /\ res = "BufferTooSmall"
  /\ hdr.tag = "Gone"
  /\ hdr.was = "SendStart"

\* ------------------------------------------------------- size calculator
\* The counts a caller sizes a control buffer for: the lengths of the
\* iterators given to encode_fds.
SpaceCounts == {f.n : f \in FdsInputs}

\* C28: for the count of descriptors of any iterator given to encode_fds,
\* cmsg_buffer_fds_space(count) is at least the cmsghdr plus count RawFd's
\* (compared on the quotients: (space - 16) div 4 >= count), and it is not
\* below cmsg_buffer_fds_space of any smaller count.
C28_NoWrap ==
  IsSome(enc_in)
    => LET c == Unwrap(enc_in).n
       IN /\ (cmsg_buffer_fds_space(c) - SizeofCmsghdr) \div SizeofRawFd >= c
          /\ \A d \in SpaceCounts :
               d <= c => cmsg_buffer_fds_space(d) <= cmsg_buffer_fds_space(c)

====
